---- MODULE Spec2Model ----
(***************************************************************************)
(* The real-time price hook useRealTimePrice (src/unnamed/part_004): a     *)
(* React hook that feeds a Price Store from a WebSocket stream, falls back *)
(* to REST polling and finally to a local simulation.  The file holds two  *)
(* successive versions of the hook (lines 100-406 and 453-741); `variant`  *)
(* selects between them.  Variant 3 is the hook of                         *)
(* src/src/hooks/useRealTimePrice.ts, which only simulates.                *)
(*                                                                         *)
(* Numbers: prices and percentages are fixed point with two decimals       *)
(* (43250.00 is 4325000), volumes and market caps are in millions,         *)
(* relative changes are in units of 0.0001 (basis points), time is in      *)
(* milliseconds.  The timestamp field of a PriceUpdate is not kept.        *)
(***************************************************************************)
EXTENDS Integers, Sequences, FiniteSets, Bags, TLC

VARIABLES
  variant,              \* which version of the hook runs: 1, 2 or 3
  mounted,              \* the component using the hook is mounted
  cryptoData,           \* the watchlist prop (set of instrument ids)
  now,                  \* Date.now()
  prices,               \* useState: Map id -> PriceUpdate
  isConnected,          \* useState
  lastUpdate,           \* useState: Date | null (0 is null)
  connectionType,       \* useState
  reconnectAttempts,    \* useState
  lastPriceUpdateRef,   \* useRef: Map id -> time of the last accepted update
  priceHistoryRef,      \* useRef (variant 3): Map id -> the last prices
  sockets,              \* the WebSocket objects that still have events to deliver
  timers,               \* the live setInterval / setTimeout handles
  fetches               \* the fetch() calls in flight

vars == <<variant, mounted, cryptoData, now, prices, isConnected, lastUpdate,
          connectionType, reconnectAttempts, lastPriceUpdateRef,
          priceHistoryRef, sockets, timers, fetches>>

----------------------------------------------------------------------------
\* Bounds of the model

MaxSockets == 2
MaxTimers == 2
MaxFetches == 1
MaxTicks == 3
MaxLifeAttempts == 1
MaxUnsubAttempts == 2
MaxDrift == 9500
MaxMove == 2500
MaxChangeMove == 10

TickMs == 50
T0 == 1000

----------------------------------------------------------------------------
\* Configuration constants of the hook

MAX_RECONNECT_ATTEMPTS == 5
RECONNECT_DELAY == 3000
POLLING_INTERVAL == 10000
PRICE_SMOOTHING_THRESHOLD == 100
RETRY_DELAY == 5000
SIMULATION_INTERVAL == 200

Variants == {1, 2}

\* The first two rows of each version's registry
Registry(v) ==
  IF v = 1
  THEN [i \in {"bitcoin", "ethereum"} |-> IF i = "bitcoin" THEN "BTCUSDT" ELSE "ETHUSDT"]
  ELSE [i \in {"1", "2"} |-> IF i = "1" THEN "BTCUSDT" ELSE "ETHUSDT"]

SYMBOL_MAPPING == Registry(variant)

\* Object.entries(SYMBOL_MAPPING): the rows in insertion order
MappingEntries ==
  IF variant = 1
  THEN << <<"bitcoin", "BTCUSDT">>, <<"ethereum", "ETHUSDT">> >>
  ELSE << <<"1", "BTCUSDT">>, <<"2", "ETHUSDT">> >>

\* The ids a watchlist is drawn from: one is in the registry of version 1
\* only, the other in the registry of version 2 only
WatchIds == {"1", "bitcoin"}
Watchlists == SUBSET WatchIds

\* CryptoAsset reference values (the Bitcoin row of the mock data)
RefPrice(id) == 4325000
RefChange24h(id) == 520
RefVolume24h(id) == 28500
MarketCap(id) == 845000

NaN == -999999999

\* String.prototype.toLowerCase on the exchange symbols
ToLowerCase(sym) ==
  CASE sym = "BTCUSDT" -> "btcusdt"
    [] sym = "ETHUSDT" -> "ethusdt"
    [] OTHER -> sym

\* parseFloat on the numeric strings of the feeds
ParseFloat(str) ==
  CASE str = "43500.12" -> 4350012
    [] str = "5.1" -> 510
    [] str = "28000000000" -> 28000
    [] str = "0" -> 0
    [] OTHER -> NaN

Max(a, b) == IF a = NaN \/ b = NaN THEN NaN ELSE IF a >= b THEN a ELSE b
Min(a, b) == IF a = NaN \/ b = NaN THEN NaN ELSE IF a <= b THEN a ELSE b

Put(f, k, v) == [x \in DOMAIN f \cup {k} |-> IF x = k THEN v ELSE f[x]]

----------------------------------------------------------------------------
\* The mutable state of the hook as one record, so that handlers compose

Cur ==
  [prices |-> prices, isConnected |-> isConnected, lastUpdate |-> lastUpdate,
   connectionType |-> connectionType, reconnectAttempts |-> reconnectAttempts,
   lastPriceUpdateRef |-> lastPriceUpdateRef,
   priceHistoryRef |-> priceHistoryRef, sockets |-> sockets,
   timers |-> timers, fetches |-> fetches]

\* React drops state updates of an unmounted component
setPrices(s, v) == IF mounted THEN [s EXCEPT !.prices = v] ELSE s
setIsConnected(s, v) == IF mounted THEN [s EXCEPT !.isConnected = v] ELSE s
setLastUpdate(s, v) == IF mounted THEN [s EXCEPT !.lastUpdate = v] ELSE s
setConnectionType(s, v) == IF mounted THEN [s EXCEPT !.connectionType = v] ELSE s
setReconnectAttempts(s, v) == IF mounted THEN [s EXCEPT !.reconnectAttempts = v] ELSE s

\* The values a render closes over: the callbacks created in the render in
\* which connectWebSocket was re-created see these values for ever.
Closure(s, data) ==
  [data |-> data, ra |-> s.reconnectAttempts, isConnected |-> s.isConnected,
   connectionType |-> s.connectionType]

IsInterval(t) == t.kind \in {"poll", "sim"}

\* if (pollingIntervalRef.current) clearInterval(pollingIntervalRef.current)
ClearPollingRef(s) ==
  [s EXCEPT !.timers = @ (-) SetToBag({t \in BagToSet(@) : IsInterval(t) /\ t.ref})]

\* pollingIntervalRef.current = setInterval(...)
SetPollingRef(s, kind, c) ==
  [s EXCEPT !.timers =
     BagOfAll(LAMBDA t : IF IsInterval(t) THEN [t EXCEPT !.ref = FALSE] ELSE t, @)
       (+) SetToBag({[kind |-> kind, ctx |-> c, ref |-> TRUE]})]

\* if (reconnectTimeoutRef.current) clearTimeout(reconnectTimeoutRef.current)
ClearReconnectRef(s) ==
  [s EXCEPT !.timers = @ (-) SetToBag({t \in BagToSet(@) : t.kind = "reconnect" /\ t.ref})]

\* reconnectTimeoutRef.current = setTimeout(...)
SetReconnectRef(s, c) ==
  [s EXCEPT !.timers =
     BagOfAll(LAMBDA t : IF t.kind = "reconnect" THEN [t EXCEPT !.ref = FALSE] ELSE t, @)
       (+) SetToBag({[kind |-> "reconnect", ctx |-> c, ref |-> TRUE]})]

\* The delay a timer was scheduled with
TimerDelay(t) ==
  CASE t.kind = "reconnect" -> RECONNECT_DELAY * (2 ^ t.ctx.ra)
    [] t.kind = "retry" -> RETRY_DELAY
    [] t.kind = "poll" -> POLLING_INTERVAL
    [] OTHER -> SIMULATION_INTERVAL

----------------------------------------------------------------------------
\* updatePriceSmooth with the comparison of the threshold off by one
updatePriceSmoothInclusive(s, cryptoId, newPrice) ==
  LET last == IF cryptoId \in DOMAIN s.lastPriceUpdateRef
              THEN s.lastPriceUpdateRef[cryptoId] ELSE 0
  IN IF now - last <= PRICE_SMOOTHING_THRESHOLD
     THEN s
     ELSE LET s1 == [s EXCEPT !.lastPriceUpdateRef = Put(@, cryptoId, now)]
              s2 == setPrices(s1, Put(s1.prices, cryptoId, newPrice))
          IN setLastUpdate(s2, now)

\* updatePriceSmooth: the per-id throttle in front of the Price Store
\* An updatePriceSmooth that restarts the window of an id when it rejects
\* an update for it
updatePriceSmoothExtending(s, cryptoId, newPrice) ==
  LET last == IF cryptoId \in DOMAIN s.lastPriceUpdateRef
              THEN s.lastPriceUpdateRef[cryptoId] ELSE 0
  IN IF now - last < PRICE_SMOOTHING_THRESHOLD
     THEN [s EXCEPT !.lastPriceUpdateRef = Put(@, cryptoId, now)]
     ELSE LET s1 == [s EXCEPT !.lastPriceUpdateRef = Put(@, cryptoId, now)]
              s2 == setPrices(s1, Put(s1.prices, cryptoId, newPrice))
          IN setLastUpdate(s2, now)

\* An updatePriceSmooth that builds the new Map from scratch instead of
\* copying the previous one
updatePriceSmoothFresh(s, cryptoId, newPrice) ==
  LET last == IF cryptoId \in DOMAIN s.lastPriceUpdateRef
              THEN s.lastPriceUpdateRef[cryptoId] ELSE 0
  IN IF now - last < PRICE_SMOOTHING_THRESHOLD
     THEN s
     ELSE LET s1 == [s EXCEPT !.lastPriceUpdateRef = Put(@, cryptoId, now)]
              s2 == setPrices(s1, Put(<< >>, cryptoId, newPrice))
          IN setLastUpdate(s2, now)

updatePriceSmooth(s, cryptoId, newPrice) ==
  LET last == IF cryptoId \in DOMAIN s.lastPriceUpdateRef
              THEN s.lastPriceUpdateRef[cryptoId] ELSE 0
  IN IF now - last < PRICE_SMOOTHING_THRESHOLD
     THEN s
     ELSE LET s1 == [s EXCEPT !.lastPriceUpdateRef = Put(@, cryptoId, now)]
              s2 == setPrices(s1, Put(s1.prices, cryptoId, newPrice))
          IN setLastUpdate(s2, now)

\* cryptoData.map(crypto => SYMBOL_MAPPING[crypto.id]).filter(Boolean)
Symbols(data) == {SYMBOL_MAPPING[i] : i \in data \cap DOMAIN SYMBOL_MAPPING}

\* startSimulation, up to the installation of the 200 ms interval
startSimulation(s, c) ==
  LET s1 == setConnectionType(s, "simulation")
      s2 == setIsConnected(s1, TRUE)
      s3 == ClearPollingRef(s2)
  IN SetPollingRef(s3, "sim", c)

\* fetchBinancePrices up to its first await
fetchBinancePrices(s, c) ==
  IF Symbols(c.data) = {}
  THEN startSimulation(s, c)
  ELSE [s EXCEPT !.fetches = @ (+) SetToBag({[ctx |-> c]})]

\* startPolling
startPolling(s, c) ==
  LET s1 == ClearPollingRef(s)
      s2 == setConnectionType(s1, "polling")
      s3 == fetchBinancePrices(s2, c)
  IN SetPollingRef(s3, "poll", c)

\* connectWebSocket, up to the installation of the socket's handlers
connectWebSocket(s, c) ==
  IF \E k \in BagToSet(s.sockets) : k.cur /\ k.state = "OPEN"
  THEN s
  ELSE IF Symbols(c.data) = {}
       THEN startPolling(s, c)
       ELSE [s EXCEPT !.sockets =
               BagOfAll(LAMBDA k : [k EXCEPT !.cur = FALSE], @)
                 (+) SetToBag({[state |-> "CONNECTING", ctx |-> c, cur |-> TRUE]})]

\* connectWebSocket when new WebSocket(wsUrl) throws: the catch block
connectWebSocketThrows(s, c) ==
  IF \E k \in BagToSet(s.sockets) : k.cur /\ k.state = "OPEN"
  THEN s
  ELSE startPolling(s, c)

\* close() that tears the connection down when the socket is already closing
CloseSocketForce(k) ==
  IF ~k.cur THEN k
  ELSE CASE k.state = "CONNECTING" -> [k EXCEPT !.state = "ABORTING"]
         [] k.state = "OPEN" -> [k EXCEPT !.state = "CLOSING"]
         [] k.state = "CLOSING" -> [k EXCEPT !.state = "ABORTING"]
         [] OTHER -> k

\* The cleanup function returned by the main connection effect: close() on
\* wsRef.current, then the two timer refs
CloseSocket(k) ==
  IF ~k.cur THEN k
  ELSE CASE k.state = "CONNECTING" -> [k EXCEPT !.state = "ABORTING"]
         [] k.state = "OPEN" -> [k EXCEPT !.state = "CLOSING"]
         [] OTHER -> k

Cleanup(s) ==
  LET s1 == [s EXCEPT !.sockets = BagOfAll(CloseSocket, @)]
      s2 == ClearPollingRef(s1)
  IN ClearReconnectRef(s2)

\* The main connection effect for the watchlist `data`
MainEffect(s, data) ==
  IF data = {} THEN s ELSE connectWebSocket(s, Closure(s, data))

\* The render that follows a handler: connectWebSocket is re-created when
\* reconnectAttempts changed, and the main effect then runs again
Render(s) ==
  IF mounted /\ s.reconnectAttempts # reconnectAttempts /\ cryptoData # {}
  THEN MainEffect(Cleanup(s), cryptoData)
  ELSE s

\* The seeding effect
Seed(data) ==
  [i \in data |-> [price |-> RefPrice(i), change24h |-> RefChange24h(i),
                   volume24h |-> RefVolume24h(i)]]

WithinBounds(s) ==
  /\ BagCardinality(s.sockets) <= MaxSockets
  /\ BagCardinality(s.timers) <= MaxTimers
  /\ BagCardinality(s.fetches) <= MaxFetches

Commit(s) ==
  /\ WithinBounds(s)
  /\ prices' = s.prices
  /\ isConnected' = s.isConnected
  /\ lastUpdate' = s.lastUpdate
  /\ connectionType' = s.connectionType
  /\ reconnectAttempts' = s.reconnectAttempts
  /\ lastPriceUpdateRef' = s.lastPriceUpdateRef
  /\ priceHistoryRef' = s.priceHistoryRef
  /\ sockets' = s.sockets
  /\ timers' = s.timers
  /\ fetches' = s.fetches

----------------------------------------------------------------------------
\* The hook's initial render: useState defaults, then the two effects
Fresh ==
  [prices |-> << >>, isConnected |-> FALSE, lastUpdate |-> 0,
   connectionType |-> "simulation", reconnectAttempts |-> 0,
   lastPriceUpdateRef |-> << >>, priceHistoryRef |-> << >>,
   sockets |-> EmptyBag, timers |-> EmptyBag, fetches |-> EmptyBag]

InitWith(vs, ws) ==
  /\ variant \in vs
  /\ mounted = TRUE
  /\ cryptoData \in ws
  /\ now = T0
  /\ LET s == MainEffect([Fresh EXCEPT !.prices = Seed(cryptoData)], cryptoData)
     IN /\ prices = s.prices
        /\ isConnected = s.isConnected
        /\ lastUpdate = s.lastUpdate
        /\ connectionType = s.connectionType
        /\ reconnectAttempts = s.reconnectAttempts
        /\ lastPriceUpdateRef = s.lastPriceUpdateRef
        /\ priceHistoryRef = s.priceHistoryRef
        /\ sockets = s.sockets
        /\ timers = s.timers
        /\ fetches = s.fetches

\* One instrument at most: a watchlist of several instruments resolves its
\* symbols like the watchlist of its registered instruments
Init == InitWith(Variants, {w \in Watchlists : Cardinality(w) < 2})

----------------------------------------------------------------------------
\* What the environment can deliver

\* A stream message: `ok` is false when JSON.parse throws or the payload
\* has no stream field; P and v are the fixed strings "5.1", "28000000000"
Msg(ok, stream, c) == [ok |-> ok, stream |-> stream, c |-> c]
Msgs ==
  { Msg(TRUE, "btcusdt@ticker", "43500.12"), Msg(TRUE, "btcusdt@ticker", "0"),
    Msg(TRUE, "btcusdt@ticker", "abc"), Msg(TRUE, "xrpusdt@ticker", "43500.12"),
    Msg(FALSE, "btcusdt@ticker", "43500.12") }
CoreMsgs == { Msg(TRUE, "btcusdt@ticker", "0") }

\* The part of a stream name that String.prototype.includes can match a
\* lower-cased exchange symbol against
Includes(stream, sub) ==
  CASE stream = "btcusdt@ticker" -> sub = "btcusdt"
    [] stream = "ethusdt@ticker" -> sub = "ethusdt"
    [] OTHER -> FALSE

\* A ticker of the batch endpoint and the response bodies considered
Ticker(symbol, lastPrice) == [symbol |-> symbol, lastPrice |-> lastPrice]
Responses ==
  { << Ticker("BTCUSDT", "43500.12") >>,
    << Ticker("BTCUSDT", "0"), Ticker("ETHUSDT", "43500.12") >>,
    << Ticker("XRPUSDT", "43500.12"), Ticker("BTCUSDT", "abc") >>,
    << Ticker("BTCUSDT", "43500.12"), Ticker("BTCUSDT", "0") >> }
CoreResponses == { << Ticker("BTCUSDT", "43500.12") >> }

\* Math.random() is r / RandDen; sin(Date.now() / 10000) * 0.0001 is trend
\* basis points
RandDen == 4
Draws == [r : {0, 2, 3}, r2 : {0, 2, 3}, trend : {-1, 0, 1}]
MainDraws == {[r |-> 2, r2 |-> 2, trend |-> 0]}
\* The draws that move a simulated price down as fast as it can go
SimDraws == {[r |-> 0, r2 |-> 0, trend |-> -1]}

\* Variant 3 seeds the history with crypto.price * (0.98 + Math.random() *
\* 0.04): a flat and a falling history
InitialHistories(id) ==
  { << RefPrice(id), RefPrice(id), RefPrice(id) >>,
    << (RefPrice(id) * 102) \div 100, RefPrice(id), (RefPrice(id) * 98) \div 100 >> }

----------------------------------------------------------------------------
\* Object.entries(SYMBOL_MAPPING).find(pred), pred given as the set of the
\* symbols that satisfy it: the id of the first row whose symbol is in
\* matching, "" when there is none
RECURSIVE FindFrom(_, _)
FindFrom(matching, i) ==
  IF i > Len(MappingEntries) THEN ""
  ELSE IF MappingEntries[i][2] \in matching THEN MappingEntries[i][1]
       ELSE FindFrom(matching, i + 1)

FindEntry(matching) == FindFrom(matching, 1)

\* The symbols of the registry
EntrySymbols == {MappingEntries[i][2] : i \in 1..Len(MappingEntries)}

\* The symbols a stream name includes in lower case
StreamSymbols(stream) ==
  {symbol \in EntrySymbols : Includes(stream, ToLowerCase(symbol))}

\* WebSocket handlers, each for the socket k and the closure k.ctx

onopen(s, k) ==
  setReconnectAttempts(setConnectionType(setIsConnected(s, TRUE), "websocket"), 0)

\* An onmessage that takes only the price from the message and keeps the
\* stored 24 h change and volume
onmessagePriceOnly(s, k, msg) ==
  IF ~msg.ok THEN s
  ELSE LET cryptoId == FindEntry(StreamSymbols(msg.stream))
       IN IF cryptoId = "" THEN s
          ELSE updatePriceSmooth(s, cryptoId,
                 [price |-> ParseFloat(msg.c),
                  change24h |-> IF cryptoId \in DOMAIN s.prices
                                THEN s.prices[cryptoId].change24h ELSE 0,
                  volume24h |-> IF cryptoId \in DOMAIN s.prices
                                THEN s.prices[cryptoId].volume24h ELSE 0])

onmessage(s, k, msg) ==
  IF ~msg.ok THEN s
  ELSE LET cryptoId == FindEntry(StreamSymbols(msg.stream))
       IN IF cryptoId = "" THEN s
          ELSE updatePriceSmooth(s, cryptoId,
                 [price |-> ParseFloat(msg.c), change24h |-> ParseFloat("5.1"),
                  volume24h |-> ParseFloat("28000000000")])

\* An onclose that treats a clean closure as the end of the connection and
\* starts nothing
oncloseQuiet(s, k, wasClean) ==
  LET s1 == setIsConnected(s, FALSE)
  IN IF wasClean THEN s1
     ELSE IF k.ctx.ra < MAX_RECONNECT_ATTEMPTS
          THEN LET s2 == setReconnectAttempts(s1,
                           IF variant = 1 THEN k.ctx.ra + 1 ELSE s1.reconnectAttempts + 1)
               IN SetReconnectRef(s2, k.ctx)
          ELSE startPolling(s1, k.ctx)

onclose(s, k, wasClean) ==
  LET s1 == setIsConnected(s, FALSE)
  IN IF ~wasClean /\ k.ctx.ra < MAX_RECONNECT_ATTEMPTS
     THEN LET s2 == setReconnectAttempts(s1,
                      IF variant = 1 THEN k.ctx.ra + 1 ELSE s1.reconnectAttempts + 1)
          IN SetReconnectRef(s2, k.ctx)
     ELSE startPolling(s1, k.ctx)

onerror(s, k) ==
  IF variant = 1
  THEN startPolling(setIsConnected(s, FALSE), k.ctx)
  ELSE startPolling(s, k.ctx)

\* fetchBinancePrices after the awaits: the ticker loop of a 2xx response
RECURSIVE ProcessTickers(_, _, _)
ProcessTickers(s, tickers, i) ==
  IF i > Len(tickers) THEN s
  ELSE LET ticker == tickers[i]
           cryptoId == FindEntry({ticker.symbol})
           s1 == IF cryptoId = "" THEN s
                 ELSE updatePriceSmooth(s, cryptoId,
                        [price |-> ParseFloat(ticker.lastPrice),
                         change24h |-> ParseFloat("5.1"),
                         volume24h |-> ParseFloat("28000000000")])
       IN ProcessTickers(s1, tickers, i + 1)

fetchResolved(s, c, tickers) ==
  LET s1 == ProcessTickers(s, tickers, 1)
  IN IF ~c.isConnected
     THEN setConnectionType(setIsConnected(s1, TRUE), "polling")
     ELSE s1

\* A catch block that falls back to the simulation
fetchRejectedSimulating(s, c) ==
  IF c.connectionType = "polling"
  THEN startSimulation(setIsConnected(s, FALSE), c)
  ELSE s

\* A catch block that also empties the store
fetchRejectedClearing(s, c) ==
  IF c.connectionType = "polling"
  THEN LET s1 == setPrices(setIsConnected(s, FALSE), << >>)
       IN [s1 EXCEPT !.timers = @ (+) SetToBag({[kind |-> "retry", ctx |-> c, ref |-> FALSE]})]
  ELSE s

\* fetchBinancePrices, the catch block
fetchRejected(s, c) ==
  IF c.connectionType = "polling"
  THEN LET s1 == setIsConnected(s, FALSE)
       IN [s1 EXCEPT !.timers = @ (+) SetToBag({[kind |-> "retry", ctx |-> c, ref |-> FALSE]})]
  ELSE s

----------------------------------------------------------------------------
\* The simulation tick

\* Math.max(0.0001, Math.min(cap, 1000000000 / crypto.marketCap)), in basis
\* points, for an instrument whose marketCap is cap millions (1000000000 / 0
\* is Infinity)
VolatilityFor(cap) ==
  Max(1, Min(IF variant = 1 THEN 50 ELSE 100,
             IF cap = 0 THEN 10000000 ELSE 10000000 \div cap))

Volatility(id) == VolatilityFor(MarketCap(id))

RandomChangeFor(cap, d) ==
  IF variant = 1
  THEN ((2 * d.r - RandDen) * VolatilityFor(cap)) \div RandDen
  ELSE ((2 * d.r - RandDen) * VolatilityFor(cap)) \div (2 * RandDen)

RandomChange(id, d) == RandomChangeFor(MarketCap(id), d)

TotalChangeFor(cap, d) ==
  IF variant = 1 THEN RandomChangeFor(cap, d) + d.trend ELSE RandomChangeFor(cap, d)

TotalChange(id, d) == TotalChangeFor(MarketCap(id), d)

\* A floor of 1% of the reference price
PriceFloorPercent(id) == RefPrice(id) \div 100

\* crypto.price * 0.1 and crypto.price * 0.5
PriceFloor(id) == IF variant = 1 THEN RefPrice(id) \div 10 ELSE RefPrice(id) \div 2

\* x * (1 + bp / 10000)
Scale(x, bp) == IF x = NaN THEN NaN ELSE x + (x * bp) \div 10000

\* The entry a tick computes for the instrument id with marketCap cap
SimulatedEntryFor(id, cap, cur, d) ==
  LET newPrice == Max(Scale(cur.price, TotalChangeFor(cap, d)), PriceFloor(id))
  IN [price |-> newPrice,
      change24h |->
        IF variant = 1
        THEN IF newPrice = NaN THEN NaN
             ELSE ((newPrice - RefPrice(id)) * 100) \div (RefPrice(id) \div 100)
        ELSE IF cur.change24h = NaN THEN NaN
             ELSE cur.change24h + RandomChangeFor(cap, d) \div 10,
      volume24h |->
        Scale(cur.volume24h,
              ((2 * d.r2 - RandDen) * (IF variant = 1 THEN 250 ELSE 100)) \div RandDen)]

SimulatedEntry(id, cur, d) == SimulatedEntryFor(id, MarketCap(id), cur, d)

\* Variant 3: momentum * 0.1 in basis points, from the price history (of
\* which only the last three entries are ever read)
MomentumInfluence(history) ==
  IF Len(history) >= 3
  THEN ((history[Len(history)] - history[Len(history) - 2]) * 1000)
         \div history[Len(history) - 2]
  ELSE 0

\* Variant 3: the entry updatePrices computes for one instrument
UpdatedEntry(id, cur, history, d) ==
  LET totalChange == RandomChange(id, d) + MomentumInfluence(history)
      newPrice == Max(Scale(cur.price, totalChange), PriceFloor(id))
      priceChangeFromOriginal ==
        ((newPrice - RefPrice(id)) * 100) \div (RefPrice(id) \div 100)
  IN [price |-> newPrice,
      change24h |-> RefChange24h(id) + priceChangeFromOriginal \div 10,
      volume24h |->
        Max(Scale(cur.volume24h, ((2 * d.r2 - RandDen) * 100) \div RandDen),
            RefVolume24h(id) \div 2)]

\* Variant 3: updatePrices
updatePrices(s, c, d) ==
  LET History(i) == IF i \in DOMAIN s.priceHistoryRef
                    THEN s.priceHistoryRef[i] ELSE << >>
      ids == DOMAIN s.prices \cap c.data
      newPrices ==
        [i \in DOMAIN s.prices |->
           IF i \in ids THEN UpdatedEntry(i, s.prices[i], History(i), d)
           ELSE s.prices[i]]
      newHistory ==
        [i \in DOMAIN s.priceHistoryRef \cup ids |->
           IF i \in ids
           THEN LET h == History(i)
                IN SubSeq(h, Max(1, Len(h) - 1), Len(h)) \o << newPrices[i].price >>
           ELSE s.priceHistoryRef[i]]
      s1 == [s EXCEPT !.priceHistoryRef = newHistory]
  IN setLastUpdate(setPrices(s1, newPrices), now)

\* The callback of the 200 ms interval
simulationTick(s, c, d) ==
  IF variant = 3 THEN updatePrices(s, c, d)
  ELSE LET newPrices ==
             [i \in DOMAIN s.prices |->
                IF i \in c.data THEN SimulatedEntry(i, s.prices[i], d)
                ELSE s.prices[i]]
       IN setLastUpdate(setPrices(s, newPrices), now)

\* The tick of the tiered hook when the watchlist's instruments have the
\* marketCap cap
simulationTickFor(s, c, cap, d) ==
  LET newPrices ==
        [i \in DOMAIN s.prices |->
           IF i \in c.data THEN SimulatedEntryFor(i, cap, s.prices[i], d)
           ELSE s.prices[i]]
  IN setLastUpdate(setPrices(s, newPrices), now)

----------------------------------------------------------------------------
\* Actions: one per event the browser delivers to the hook.  Each runs the
\* handler and the render (with its effects) that the handler's state
\* updates cause.

Frame == UNCHANGED <<variant, mounted, cryptoData, now>>

Tick ==
  /\ now < T0 + MaxTicks * TickMs
  /\ now' = now + TickMs
  /\ UNCHANGED <<variant, mounted, cryptoData, prices, isConnected, lastUpdate,
                 connectionType, reconnectAttempts, lastPriceUpdateRef,
                 priceHistoryRef, sockets, timers, fetches>>

\* The parent renders the hook with a new watchlist array
ChangeWatchlist(w) ==
  /\ mounted
  /\ cryptoData' = w
  /\ LET s0 == IF cryptoData # {} THEN Cleanup(Cur) ELSE Cur
         s1 == setPrices(s0, Seed(w))
     IN Commit(MainEffect(s1, w))
  /\ UNCHANGED <<variant, mounted, now>>

Unmount ==
  /\ mounted
  /\ mounted' = FALSE
  /\ Commit(IF cryptoData # {} THEN Cleanup(Cur) ELSE Cur)
  /\ UNCHANGED <<variant, cryptoData, now>>

Without(B, x) == B (-) SetToBag({x})

WsOpen(k) ==
  /\ k.state = "CONNECTING"
  /\ LET s0 == [Cur EXCEPT !.sockets = Without(@, k) (+) SetToBag({[k EXCEPT !.state = "OPEN"]})]
     IN Commit(Render(onopen(s0, k)))
  /\ Frame

WsMessage(k, msg) ==
  /\ k.state = "OPEN"
  /\ Commit(Render(onmessage(Cur, k, msg)))
  /\ Frame

\* The connection fails: the browser fires the error event and then the
\* close event (wasClean = false) from one task
WsFail(k) ==
  /\ k.state \in {"CONNECTING", "OPEN", "ABORTING", "CLOSING"}
  /\ LET s0 == [Cur EXCEPT !.sockets = Without(@, k)]
     IN Commit(Render(onclose(onerror(s0, k), k, FALSE)))
  /\ Frame

\* The connection closes without an error event: after the closing
\* handshake (wasClean = true) or because the transport was lost
WsClose(k, wasClean) ==
  /\ k.state \in {"OPEN", "CLOSING"}
  /\ LET s0 == [Cur EXCEPT !.sockets = Without(@, k)]
     IN Commit(Render(onclose(s0, k, wasClean)))
  /\ Frame

\* The reconnect timeout or the retry timeout fires: connectWebSocket()
TimeoutFire(t) ==
  /\ t.kind \in {"reconnect", "retry"}
  /\ LET s0 == [Cur EXCEPT !.timers = Without(@, t)]
     IN Commit(Render(connectWebSocket(s0, t.ctx)))
  /\ Frame

\* The reconnect timeout or the retry timeout fires and the WebSocket
\* constructor throws
TimeoutFireThrows(t) ==
  /\ t.kind \in {"reconnect", "retry"}
  /\ Symbols(t.ctx.data) # {}
  /\ LET s0 == [Cur EXCEPT !.timers = Without(@, t)]
     IN Commit(Render(connectWebSocketThrows(s0, t.ctx)))
  /\ Frame

\* The polling interval fires: fetchBinancePrices()
PollFire(t) ==
  /\ t.kind = "poll"
  /\ Commit(Render(fetchBinancePrices(Cur, t.ctx)))
  /\ Frame

\* The simulation interval fires
SimFire(t, d) ==
  /\ t.kind = "sim"
  /\ Commit(Render(simulationTick(Cur, t.ctx, d)))
  /\ Frame

\* The simulation interval fires for instruments whose marketCap is cap
SimFireFor(t, cap, d) ==
  /\ t.kind = "sim"
  /\ Commit(Render(simulationTickFor(Cur, t.ctx, cap, d)))
  /\ Frame

FetchOk(f, tickers) ==
  /\ LET s0 == [Cur EXCEPT !.fetches = Without(@, f)]
     IN Commit(Render(fetchResolved(s0, f.ctx, tickers)))
  /\ Frame

\* Network error, non-2xx status or a body that is not an array of tickers
FetchFail(f) ==
  /\ LET s0 == [Cur EXCEPT !.fetches = Without(@, f)]
     IN Commit(Render(fetchRejected(s0, f.ctx)))
  /\ Frame

\* A 2xx response whose body is not JSON (response.json() rejects) or is
\* not an array (tickers.forEach throws): the catch block
FetchMalformed(f) ==
  /\ LET s0 == [Cur EXCEPT !.fetches = Without(@, f)]
     IN Commit(Render(fetchRejected(s0, f.ctx)))
  /\ Frame

\* The events of a subscription whose watchlist stays as it is
Next ==
  \/ \E k \in BagToSet(sockets) : WsOpen(k)
  \/ \E k \in BagToSet(sockets), msg \in CoreMsgs : WsMessage(k, msg)
  \/ \E k \in BagToSet(sockets) : WsFail(k)
  \/ \E k \in BagToSet(sockets), wasClean \in BOOLEAN : WsClose(k, wasClean)
  \/ \E t \in BagToSet(timers) : TimeoutFire(t)
  \/ \E t \in BagToSet(timers) : PollFire(t)
  \/ \E t \in BagToSet(timers), d \in MainDraws : SimFire(t, d)
  \/ \E f \in BagToSet(fetches), tickers \in CoreResponses : FetchOk(f, tickers)
  \/ \E f \in BagToSet(fetches) : FetchFail(f)

Spec == Init /\ [][Next]_vars

\* The life cycle of the hook: the watchlist changes, with at most
\* MaxLifeAttempts abnormal closures in a row and no failing batch request
LifeWatchlists == {{}, {"1"}, {"bitcoin"}}

NextLife ==
  \/ \E w \in LifeWatchlists : ChangeWatchlist(w)
  \/ \E k \in BagToSet(sockets) : WsOpen(k)
  \/ \E k \in BagToSet(sockets), msg \in CoreMsgs : WsMessage(k, msg)
  \/ \E k \in BagToSet(sockets) :
        /\ k.ctx.ra < MaxLifeAttempts
        /\ reconnectAttempts < MaxLifeAttempts
        /\ WsFail(k)
  \/ \E k \in BagToSet(sockets) : WsClose(k, TRUE)
  \/ \E t \in BagToSet(timers) : TimeoutFire(t)
  \/ \E t \in BagToSet(timers) : PollFire(t)
  \/ \E t \in BagToSet(timers), d \in MainDraws : SimFire(t, d)
  \/ \E f \in BagToSet(fetches), tickers \in CoreResponses : FetchOk(f, tickers)

InitLife == InitWith(Variants, LifeWatchlists)

SpecLife == InitLife /\ [][NextLife]_vars

\* The throttle in time: the clock advances, nothing fails, the component
\* may unmount
NextThrottle ==
  \/ Tick
  \/ Unmount
  \/ \E k \in BagToSet(sockets) : WsOpen(k)
  \/ \E k \in BagToSet(sockets), msg \in Msgs : WsMessage(k, msg)
  \/ \E k \in BagToSet(sockets) : WsClose(k, TRUE)
  \/ \E t \in BagToSet(timers) : PollFire(t)
  \/ \E t \in BagToSet(timers), d \in MainDraws : SimFire(t, d)
  \/ \E f \in BagToSet(fetches), tickers \in Responses : FetchOk(f, tickers)

InitThrottle == InitWith(Variants, Watchlists)

SpecThrottle == InitThrottle /\ [][NextThrottle]_vars

\* Streaming never succeeds: every socket fails before it opens
NextFail ==
  \/ \E k \in BagToSet(sockets) : WsFail(k)
  \/ \E t \in BagToSet(timers) : TimeoutFire(t)
  \/ \E t \in BagToSet(timers) : PollFire(t)
  \/ \E f \in BagToSet(fetches), tickers \in CoreResponses : FetchOk(f, tickers)
  \/ \E f \in BagToSet(fetches) : FetchFail(f)

\* Instruments are added to and removed from the watchlist while the feeds
\* deliver the example prices
NextReseed ==
  \/ \E w \in Watchlists : w # cryptoData /\ ChangeWatchlist(w)
  \/ \E k \in BagToSet(sockets) : WsOpen(k)
  \/ \E k \in BagToSet(sockets) : WsMessage(k, Msg(TRUE, "btcusdt@ticker", "43500.12"))
  \/ \E k \in BagToSet(sockets) : WsClose(k, TRUE)
  \/ \E f \in BagToSet(fetches), tickers \in CoreResponses : FetchOk(f, tickers)

InitReseed == InitWith(Variants, Watchlists)

SpecReseed == InitReseed /\ [][NextReseed]_vars

\* The watchlists with an instrument that version v has in its registry
RegisteredLists(v) == {w \in Watchlists : w \cap DOMAIN Registry(v) # {}}

InitFail == \E v \in Variants : InitWith({v}, RegisteredLists(v))

SpecFail == InitFail /\ [][NextFail]_vars

\* Streaming never succeeds and the consumer may unsubscribe: the parent
\* renders the hook with an empty watchlist
NextUnsub ==
  \/ ChangeWatchlist({})
  \/ \E k \in BagToSet(sockets) : reconnectAttempts < MaxUnsubAttempts /\ WsFail(k)
  \/ \E t \in BagToSet(timers) : TimeoutFire(t)
  \/ \E t \in BagToSet(timers) : PollFire(t)
  \/ \E f \in BagToSet(fetches), tickers \in CoreResponses : FetchOk(f, tickers)
  \/ \E f \in BagToSet(fetches) : FetchFail(f)

SpecUnsub == InitFail /\ [][NextUnsub]_vars

\* Every transport failure: sockets that fail before or after they open,
\* a constructor that throws, requests that fail
NextTransport ==
  \/ \E k \in BagToSet(sockets) : WsOpen(k)
  \/ \E k \in BagToSet(sockets) : WsFail(k)
  \/ \E k \in BagToSet(sockets) : WsClose(k, FALSE)
  \/ \E t \in BagToSet(timers) : TimeoutFire(t)
  \/ \E t \in BagToSet(timers) : TimeoutFireThrows(t)
  \/ \E t \in BagToSet(timers) : PollFire(t)
  \/ \E f \in BagToSet(fetches), tickers \in CoreResponses : FetchOk(f, tickers)
  \/ \E f \in BagToSet(fetches) : FetchFail(f)

SpecTransport == InitFail /\ [][NextTransport]_vars

\* The simulation on its own: the tiered hook with a watchlist that has
\* no registered instrument, and the hook that only simulates
UnregisteredLists(v) == {w \in Watchlists : w # {} /\ w \cap DOMAIN Registry(v) = {}}

\* Variant 3 after its first render: the seeding effect, then the effect
\* that installs the interval
Init3 ==
  /\ variant = 3
  /\ mounted = TRUE
  /\ cryptoData \in Watchlists \ {{}}
  /\ now = T0
  /\ prices = Seed(cryptoData)
  /\ isConnected = TRUE
  /\ lastUpdate = 0
  /\ connectionType = "simulation"
  /\ reconnectAttempts = 0
  /\ lastPriceUpdateRef = << >>
  /\ priceHistoryRef \in [cryptoData -> UNION {InitialHistories(i) : i \in cryptoData}]
  /\ sockets = EmptyBag
  /\ timers = SetToBag({[kind |-> "sim", ctx |-> Closure(Fresh, cryptoData), ref |-> TRUE]})
  /\ fetches = EmptyBag

InitSim ==
  \/ \E v \in Variants : InitWith({v}, UnregisteredLists(v))
  \/ Init3

\* The simulation is followed until the 24 h change of an instrument has
\* drifted down by MaxDrift hundredths of a percent
NextSim ==
  \/ \E t \in BagToSet(timers), d \in SimDraws :
        /\ \A i \in DOMAIN prices : prices[i].change24h > -MaxDrift
        /\ SimFire(t, d)
  \/ \E t \in BagToSet(timers) : PollFire(t)

SpecSim == InitSim /\ [][NextSim]_vars

\* The simulation of the tiered hook for instruments of several market
\* capitalisations (in millions: 1e11, Bitcoin's 8.45e11, 2e14 and 0), with
\* every draw that leaves the volume as it is, while the price is within
\* MaxMove hundredths of the reference price (and the accumulated 24 h
\* change of the second version within MaxChangeMove hundredths of a percent)
MarketCaps == {0, 100000, 845000, 200000000}
MoveDraws == {d \in Draws : d.r2 = 2}

NextMove ==
  \E t \in BagToSet(timers), cap \in MarketCaps, d \in MoveDraws :
     /\ \A i \in DOMAIN prices :
          /\ prices[i].price >= RefPrice(i) - MaxMove
          /\ prices[i].price <= RefPrice(i) + MaxMove
          /\ variant = 2 =>
               /\ prices[i].change24h >= RefChange24h(i) - MaxChangeMove
               /\ prices[i].change24h <= RefChange24h(i) + MaxChangeMove
     /\ SimFireFor(t, cap, d)

InitMove == \E v \in Variants : InitWith({v}, UnregisteredLists(v))

SpecMove == InitMove /\ [][NextMove]_vars

TypeOK ==
  /\ variant \in Variants \cup {3}
  /\ mounted \in BOOLEAN
  /\ cryptoData \in Watchlists
  /\ isConnected \in BOOLEAN
  /\ connectionType \in {"websocket", "polling", "simulation"}
  /\ reconnectAttempts \in Nat

----------------------------------------------------------------------------
\* Vocabulary of the properties

Sockets == BagToSet(sockets)
Timers == BagToSet(timers)

\* The cleanup has run and no subscription was made after it
Unsubscribed == ~mounted \/ cryptoData = {}

\* A stream socket is open or connecting, or a stream reconnect is pending
StreamActive ==
  \/ \E k \in Sockets : k.state \in {"CONNECTING", "OPEN"}
  \/ \E t \in Timers : t.kind = "reconnect"
PollRunning == \E t \in Timers : t.kind = "poll"
SimRunning == \E t \in Timers : t.kind = "sim"

----------------------------------------------------------------------------
\* C1: once the cleanup of the main effect has run (and no new subscription
\* was made), no step writes the Price Store: every step taken while the
\* hook is unsubscribed, other than a render with a new watchlist, leaves
\* prices as it is.
C1_NoWriteAfterUnsubscribe ==
  [][(Unsubscribed /\ Unsubscribed' /\ ~(\E w \in Watchlists : ChangeWatchlist(w)))
       => prices' = prices]_vars

\* C2: an active stream (socket open or connecting, or reconnect pending), a
\* running poll interval and a running simulation interval never coexist.
C2_TiersExclusive ==
  /\ ~(StreamActive /\ PollRunning)
  /\ ~(StreamActive /\ SimRunning)
  /\ ~(PollRunning /\ SimRunning)

\* C3: every entry of the Price Store has a price that is a number greater
\* than zero.
C3_PricePositive ==
  \A i \in DOMAIN prices : prices[i].price # NaN /\ prices[i].price > 0

----------------------------------------------------------------------------
\* The PriceUpdate a feed builds from a price string
PriceUpdate(str) ==
  [price |-> ParseFloat(str), change24h |-> ParseFloat("5.1"),
   volume24h |-> ParseFloat("28000000000")]

\* The throttle lets an update for id through now
Due(id) ==
  \/ id \notin DOMAIN lastPriceUpdateRef
  \/ now - lastPriceUpdateRef[id] >= PRICE_SMOOTHING_THRESHOLD

\* The instrument a stream message is for, "" when there is none
MsgId(msg) ==
  IF msg.ok THEN FindEntry(StreamSymbols(msg.stream)) ELSE ""

\* The position of the first ticker of a response that is for id, 0 when
\* there is none
FirstTicker(tickers, id) ==
  LET I == {i \in 1..Len(tickers) : FindEntry({tickers[i].symbol}) = id}
  IN IF I = {} THEN 0 ELSE CHOOSE i \in I : \A j \in I : i <= j

\* The entry of id in the store and in the throttle's table stay as they are
Kept(id) ==
  /\ (id \in DOMAIN prices') = (id \in DOMAIN prices)
  /\ id \in DOMAIN prices => prices'[id] = prices[id]
  /\ (id \in DOMAIN lastPriceUpdateRef') = (id \in DOMAIN lastPriceUpdateRef)
  /\ id \in DOMAIN lastPriceUpdateRef => lastPriceUpdateRef'[id] = lastPriceUpdateRef[id]

\* The update u for id is written and the throttle's table records the time
Written(id, u) ==
  /\ id \in DOMAIN prices' /\ prices'[id] = u
  /\ id \in DOMAIN lastPriceUpdateRef' /\ lastPriceUpdateRef'[id] = now

\* In every state: submitting an update for id writes it exactly when id was
\* never updated or the last accepted update is 100 ms or more old, and a
\* second update submitted right after an accepted one is dropped
ThrottleContract ==
  mounted =>
    \A id \in DOMAIN SYMBOL_MAPPING, str \in {"43500.12", "0"} :
      LET s == updatePriceSmooth(Cur, id, PriceUpdate(str))
      IN IF Due(id)
         THEN /\ s.prices = Put(prices, id, PriceUpdate(str))
              /\ s.lastPriceUpdateRef = Put(lastPriceUpdateRef, id, now)
              /\ updatePriceSmooth(s, id, PriceUpdate("5.1")) = s
         ELSE s = Cur

\* In every step of a feed: a stream message for id, and the first ticker
\* for id of a batch response, is written when the throttle lets it through
\* and leaves the store as it is otherwise; later tickers for id of the same
\* response are dropped
ThrottleStep ==
  /\ \A k \in Sockets, msg \in Msgs :
       (mounted /\ WsMessage(k, msg) /\ MsgId(msg) # "") =>
          IF Due(MsgId(msg)) THEN Written(MsgId(msg), PriceUpdate(msg.c))
          ELSE Kept(MsgId(msg))
  /\ \A f \in BagToSet(fetches), tickers \in Responses :
       (mounted /\ FetchOk(f, tickers)) =>
          \A id \in DOMAIN SYMBOL_MAPPING :
            LET i == FirstTicker(tickers, id)
            IN IF i # 0 /\ Due(id)
               THEN Written(id, PriceUpdate(tickers[i].lastPrice))
               ELSE Kept(id)

\* C4: of two updates for an id submitted through updatePriceSmooth less
\* than 100 ms apart only the first is written; an update that arrives
\* 100 ms or more after the last accepted one is written too; the first
\* update ever submitted for an id is always written.
C4_Throttle == []ThrottleContract /\ [][ThrottleStep]_vars

\* A second update was accepted 100 ms or more after the subscription, and
\* the clock is again inside the window of that update
C4_Witness ==
  \E id \in DOMAIN lastPriceUpdateRef \cap DOMAIN prices :
    /\ mounted
    /\ lastPriceUpdateRef[id] >= T0 + PRICE_SMOOTHING_THRESHOLD
    /\ now > lastPriceUpdateRef[id]
    /\ ~Due(id)
    /\ prices[id].price = ParseFloat("0")

----------------------------------------------------------------------------
\* Some tier serves the subscription
SomeTier == StreamActive \/ PollRunning \/ SimRunning

\* The abnormal closure of a socket that never opened raises the counter by
\* one while it is below the maximum, and starts polling otherwise
FailStep ==
  \A k \in Sockets :
    (k.state = "CONNECTING" /\ WsFail(k)) =>
       IF reconnectAttempts < MAX_RECONNECT_ATTEMPTS
       THEN reconnectAttempts' = reconnectAttempts + 1
       ELSE /\ reconnectAttempts' = reconnectAttempts
            /\ connectionType' = "polling"
            /\ \E t \in BagToSet(timers') : t.kind = "poll"
            /\ \A j \in BagToSet(sockets') : j.state # "CONNECTING"

\* C5: when no stream connection ever opens, each abnormal closure raises
\* the reconnect counter by one up to 5, the closure after that puts the
\* hook in the polling tier with no further stream attempt, and at every
\* moment some tier is running.
C5_Fallback == [](cryptoData # {} => SomeTier) /\ [][FailStep]_vars

----------------------------------------------------------------------------
\* An abnormal closure of the socket k
AbnormalClosure(k) == WsFail(k) \/ WsClose(k, FALSE)

\* C6: an abnormal closure at reconnect counter c < 5 makes the counter c+1,
\* leaves a reconnect timeout of 3 s * 2^c pending and starts no stream
\* connection attempt in the same step: the next attempt is the one the
\* timeout makes.
C6_Backoff ==
  [][\A k \in Sockets :
       (AbnormalClosure(k) /\ k.ctx.ra = reconnectAttempts
          /\ reconnectAttempts < MAX_RECONNECT_ATTEMPTS) =>
         /\ reconnectAttempts' = reconnectAttempts + 1
         /\ \E t \in BagToSet(timers') :
              /\ t.kind = "reconnect"
              /\ TimerDelay(t) = RECONNECT_DELAY * (2 ^ reconnectAttempts)
         /\ \A j \in BagToSet(sockets') : j.state = "CONNECTING" => j \in Sockets]_vars

----------------------------------------------------------------------------
\* The instruments a running simulation interval updates
Simulated == UNION {t.ctx.data : t \in {x \in Timers : x.kind = "sim"}} \cap DOMAIN prices

\* C7: for every instrument with marketCap > 0 that the simulation updates,
\* the price in the Price Store is a number of at least 10% of the reference
\* price, after any number of ticks.
C7_Floor ==
  \A i \in Simulated :
    MarketCap(i) > 0 =>
      prices[i].price # NaN /\ prices[i].price * 10 >= RefPrice(i)

\* The ticks have pushed a simulated price down to exactly 10% of the
\* reference price
C7_Witness ==
  \E i \in Simulated :
    /\ MarketCap(i) > 0
    /\ prices[i].price * 10 = RefPrice(i)
    /\ lastUpdate # 0

----------------------------------------------------------------------------
\* C8: once the hook reports a connection, every instrument of the
\* watchlist that has no registry entry is updated by a running simulation
\* interval, also when other instruments of the watchlist are registered.
C8_UnmappedSimulated ==
  (mounted /\ isConnected) =>
     \A u \in cryptoData \ DOMAIN SYMBOL_MAPPING :
       \E t \in Timers : t.kind = "sim" /\ u \in t.ctx.data

----------------------------------------------------------------------------
\* A non-empty watchlist none of whose instruments is registered
Unregistered(w) == w # {} /\ Symbols(w) = {}

\* The hook simulates and reports a connection
Simulating == connectionType = "simulation" /\ isConnected /\ SimRunning

\* C9: subscribing with a non-empty watchlist that has no registered
\* instrument (the first render, or a render with a new watchlist) ends, in
\* that same step, in the simulation tier with isConnected = true, and the
\* step creates no socket and issues no fetch.
C9_StraightToSimulation ==
  /\ (Unregistered(cryptoData) => Simulating /\ sockets = EmptyBag /\ fetches = EmptyBag)
  /\ [][\A w \in Watchlists :
          (ChangeWatchlist(w) /\ Unregistered(w)) =>
             /\ Simulating'
             /\ \A k \in BagToSet(sockets') : k.state = "CONNECTING" => k \in Sockets
             /\ fetches' = fetches]_vars

----------------------------------------------------------------------------
\* C10: the cleanup is idempotent: in every state, running it a second time
\* leaves the sockets, the timers, the Price Store and the flags exactly as
\* the first run left them, and the cleanup run again right after the hook
\* unsubscribed changes nothing.
C10_CleanupIdempotent ==
  /\ [](Cleanup(Cleanup(Cur)) = Cleanup(Cur))
  /\ [][(cryptoData # {} /\ ChangeWatchlist({})) => Cleanup(Cur)' = Cur']_vars

\* The hook has unsubscribed: the cleanup has called close() on the current
\* socket, and a second run would change nothing
C10_Witness ==
  /\ cryptoData = {}
  /\ \E k \in Sockets : k.cur /\ k.state \in {"ABORTING", "CLOSING"}
  /\ Cleanup(Cur) = Cur

----------------------------------------------------------------------------
\* A timer whose callback is connectWebSocket
StartsStream(t) == t.kind \in {"reconnect", "retry"}

\* The step in which the hook unsubscribes
Unsubscribes == cryptoData # {} /\ ChangeWatchlist({})

\* C11: the unsubscribing step leaves no timer pending that would start a
\* stream connection attempt (neither the backoff reconnect timeout nor the
\* 5 s retry timeout), and while the hook is unsubscribed no step creates a
\* socket.
C11_TimersCancelled ==
  /\ [][Unsubscribes => \A t \in BagToSet(timers') : ~StartsStream(t)]_vars
  /\ [][(Unsubscribed /\ Unsubscribed' /\ ~(\E w \in Watchlists : ChangeWatchlist(w)))
          => BagCardinality(sockets') <= BagCardinality(sockets)]_vars

----------------------------------------------------------------------------
\* The instrument the registry lists for BTCUSDT: "bitcoin" in the first
\* version, "1" in the second
BtcId == CHOOSE i \in DOMAIN SYMBOL_MAPPING : SYMBOL_MAPPING[i] = "BTCUSDT"

\* The ticker message of the example: c = "43500.12", P = "5.1",
\* v = "28000000000"
BtcMsg == Msg(TRUE, "btcusdt@ticker", "43500.12")

\* C12: a stream message that resolves through the registry to the
\* instrument i and that the throttle accepts sets the entry of i to
\* exactly the parsed values of the message and leaves every other entry as
\* it is; the BTCUSDT message of the example sets the entry of the Bitcoin id
\* to price 43500.12, change24h 5.1, volume24h 28000 million.
C12_MessageSetsEntry ==
  /\ [][\A k \in Sockets, msg \in Msgs :
          (mounted /\ WsMessage(k, msg) /\ MsgId(msg) # "" /\ Due(MsgId(msg))) =>
             prices' = Put(prices, MsgId(msg),
                           [price |-> ParseFloat(msg.c), change24h |-> ParseFloat("5.1"),
                            volume24h |-> ParseFloat("28000000000")])]_vars
  /\ [][\A k \in Sockets :
          (mounted /\ WsMessage(k, BtcMsg) /\ Due(BtcId)) =>
             /\ DOMAIN prices' = DOMAIN prices \cup {BtcId}
             /\ prices'[BtcId] = [price |-> 4350012, change24h |-> 510, volume24h |-> 28000]
             /\ \A i \in DOMAIN prices \ {BtcId} : prices'[i] = prices[i]]_vars

\* Second version: the stream is open, polling was never started, and the
\* entry of id "1" holds the values of the example message while another
\* instrument still has its seeded entry
C12_Witness ==
  /\ variant = 2 /\ mounted /\ BtcId = "1"
  /\ connectionType = "websocket" /\ isConnected
  /\ timers = EmptyBag /\ fetches = EmptyBag
  /\ "1" \in DOMAIN prices
  /\ prices["1"] = [price |-> 4350012, change24h |-> 510, volume24h |-> 28000]
  /\ "1" \in DOMAIN lastPriceUpdateRef
  /\ \E i \in DOMAIN prices \ {"1"} : prices[i].price = RefPrice(i)

----------------------------------------------------------------------------
\* A step that is not a change of the watchlist and leaves the hook mounted
SameSubscription ==
  /\ mounted' /\ cryptoData' = cryptoData
  /\ ~(\E w \in Watchlists : ChangeWatchlist(w))

\* The simulation tier serves the current watchlist
SimulatingCurrent ==
  /\ mounted /\ cryptoData # {}
  /\ connectionType = "simulation" /\ isConnected
  /\ \E t \in Timers : t.kind = "sim" /\ t.ctx.data = cryptoData

\* C13: once the tier is simulating, no step of the same subscription
\* creates a socket, issues a batch request or changes the tier.
C13_SimulationTerminal ==
  [][(SimulatingCurrent /\ SameSubscription) =>
        /\ connectionType' = "simulation"
        /\ BagCardinality(sockets') <= BagCardinality(sockets)
        /\ BagCardinality(fetches') <= BagCardinality(fetches)
        /\ SimulatingCurrent']_vars

----------------------------------------------------------------------------
\* A transport failure reaches the hook: a socket fails or is lost, the
\* WebSocket constructor throws, a request is rejected or is not 2xx
TransportFailure ==
  \/ \E k \in Sockets : WsFail(k) \/ WsClose(k, FALSE)
  \/ \E t \in Timers : TimeoutFireThrows(t)
  \/ \E f \in BagToSet(fetches) : FetchFail(f)

\* What a failure is turned into
TierTransition == connectionType' # connectionType \/ (connectionType' = "polling" /\ PollRunning')
RetryScheduled ==
  \/ \E t \in BagToSet(timers') : StartsStream(t)
  \/ \E k \in BagToSet(sockets') : k.state = "CONNECTING"
NoOp ==
  /\ connectionType' = connectionType /\ reconnectAttempts' = reconnectAttempts
  /\ timers' \sqsubseteq timers /\ isConnected' = isConnected

\* C14: every transport failure is handled by the hook: its step is a tier
\* transition, a scheduled retry or a no-op, and it leaves the Price Store
\* and the throttle's table as they are.
C14_FailuresContained ==
  [][TransportFailure =>
       /\ prices' = prices
       /\ lastPriceUpdateRef' = lastPriceUpdateRef
       /\ (TierTransition \/ RetryScheduled \/ NoOp)]_vars

\* A poll wrote the store, a later request failed in the polling tier: the
\* retry is scheduled and the store still holds the polled price
C14_Witness ==
  /\ mounted /\ connectionType = "polling" /\ ~isConnected
  /\ \E t \in Timers : t.kind = "retry"
  /\ \E i \in DOMAIN prices : prices[i].price = ParseFloat("43500.12")

----------------------------------------------------------------------------
\* The store has an entry for every instrument of the watchlist
StoreCoversWatchlist == mounted => cryptoData \subseteq DOMAIN prices

\* C15: in every reachable state the Price Store holds an entry for every
\* instrument of the current watchlist, and no step other than a change of
\* the watchlist removes an entry.
C15_EntriesKept ==
  /\ []StoreCoversWatchlist
  /\ [][(mounted /\ ~(\E w \in Watchlists : ChangeWatchlist(w)))
          => DOMAIN prices \subseteq DOMAIN prices']_vars

\* After a change of the watchlist and a failed connection, a feed of the
\* previous subscription has written the store, which holds that entry next
\* to the seeded entry of the current watchlist
C15_Witness ==
  /\ mounted /\ cryptoData # {} /\ reconnectAttempts > 0
  /\ cryptoData \subseteq DOMAIN prices
  /\ \E i \in DOMAIN prices \ cryptoData : prices[i].price = ParseFloat("43500.12")

----------------------------------------------------------------------------
\* The step writes the entry of id: it creates the entry or changes it
Writes(id) ==
  /\ id \in DOMAIN prices'
  /\ id \notin DOMAIN prices \/ prices'[id] # prices[id]

\* C16: every step of the tiered hook that writes a Price Store entry after
\* seeding goes through the throttle: the throttle lets an update for the id
\* through at that time and its table records the time of the write, so two
\* successive writes of an id are 100 ms or more apart.
C16_WritesThrottled ==
  [][\A id \in WatchIds :
       (variant \in Variants /\ SameSubscription /\ Writes(id)) =>
          /\ Due(id)
          /\ id \in DOMAIN lastPriceUpdateRef' /\ lastPriceUpdateRef'[id] = now]_vars

----------------------------------------------------------------------------
\* C17: when the current socket fails with an error event followed by its
\* close event while the reconnect counter is below 5, the step raises the
\* counter by exactly one and does not start polling: it issues no batch
\* request, installs no poll interval and does not set the tier to polling.
C17_ErrorLikeClosure ==
  [][\A k \in Sockets :
       (/\ mounted /\ cryptoData # {}
        /\ k.cur /\ k.ctx.ra = reconnectAttempts /\ k.ctx.data = cryptoData
        /\ reconnectAttempts < MAX_RECONNECT_ATTEMPTS
        /\ connectionType # "polling" /\ ~PollRunning /\ fetches = EmptyBag
        /\ WsFail(k)) =>
          /\ reconnectAttempts' = reconnectAttempts + 1
          /\ fetches' = EmptyBag
          /\ ~PollRunning'
          /\ connectionType' # "polling"]_vars

----------------------------------------------------------------------------
\* The number of pending 5 s retry timeouts
RetriesPending ==
  BagCardinality([t \in {u \in Timers : u.kind = "retry"} |-> timers[t]])

\* C18: a request that fails while the tier is polling sets connected to
\* false and leaves a retry of streaming pending, and at no time is more
\* than one such retry pending.
C18_PollFailureRetries ==
  /\ [][\A f \in BagToSet(fetches) :
          (mounted /\ cryptoData # {} /\ connectionType = "polling" /\ FetchFail(f)) =>
             /\ ~isConnected'
             /\ RetriesPending' = 1]_vars
  /\ [](RetriesPending <= 1)

----------------------------------------------------------------------------
\* C19: a stream message or a poll ticker for a symbol that belongs to no
\* instrument of the current watchlist creates no entry: the ids of the
\* Price Store are always ids of the current watchlist.
C19_KeysWithinWatchlist == mounted => DOMAIN prices \subseteq cryptoData

----------------------------------------------------------------------------
\* The store, the connected flag, the tier, the counter and the timers stay
\* as they are
HookUnchanged ==
  UNCHANGED <<prices, isConnected, connectionType, reconnectAttempts, timers>>

\* C20: a stream message that does not parse and a poll payload that does
\* not parse change neither the Price Store, the connected flag, the tier,
\* the reconnect counter nor the timers, and schedule no stream retry.
C20_MalformedDiscarded ==
  /\ [][\A k \in Sockets, msg \in Msgs :
          (mounted /\ ~msg.ok /\ WsMessage(k, msg)) => HookUnchanged]_vars
  /\ [][\A f \in BagToSet(fetches) :
          (mounted /\ cryptoData # {} /\ FetchMalformed(f)) =>
             HookUnchanged /\ RetriesPending' = RetriesPending]_vars

----------------------------------------------------------------------------
\* C21: the opening of a stream connection alone changes neither the
\* connected flag, the tier nor the reconnect counter: these are set by the
\* first message the connection delivers, so a connection that opens and is
\* lost before any message never reports connected and never resets the
\* counter.
C21_ConnectedOnFirstMessage ==
  [][\A k \in Sockets :
       (mounted /\ cryptoData # {} /\ k.cur /\ WsOpen(k)) =>
          /\ isConnected' = isConnected
          /\ connectionType' = connectionType
          /\ reconnectAttempts' = reconnectAttempts]_vars

----------------------------------------------------------------------------
\* A socket that is connecting or open
Live(k) == k.state \in {"CONNECTING", "OPEN"}

\* C22: a change of the watchlist resets the feed state: the reconnect
\* counter is 0 afterwards, the connected flag is false (unless the new
\* watchlist is served by simulation at once), no timer and no live socket
\* of the previous watchlist is left, and when the new watchlist is empty no
\* socket is live and no timer is pending.
C22_ResetOnChange ==
  [][\A w \in Watchlists :
       (mounted /\ ChangeWatchlist(w)) =>
          /\ reconnectAttempts' = 0
          /\ (w = {} \/ Symbols(w) # {}) => ~isConnected'
          /\ \A t \in BagToSet(timers') : t.ctx.data = w
          /\ \A k \in BagToSet(sockets') : Live(k) => k.ctx.data = w
          /\ w = {} => timers' = EmptyBag
          /\ w = {} => \A k \in BagToSet(sockets') : ~Live(k)]_vars

----------------------------------------------------------------------------
\* C23: after a change of the watchlist every id that is new in it has an
\* entry equal to the instrument's reference price, change and volume, and
\* every id that was kept has the entry it had before the change.
C23_ReseedNewOnly ==
  [][\A w \in Watchlists :
       (mounted /\ w # cryptoData /\ ChangeWatchlist(w)) =>
          /\ \A i \in w \ cryptoData :
               i \in DOMAIN prices' /\ prices'[i] = Seed(w)[i]
          /\ \A i \in (w \cap cryptoData) \cap DOMAIN prices :
               i \in DOMAIN prices' /\ prices'[i] = prices[i]]_vars

----------------------------------------------------------------------------
\* |x|
Abs(x) == IF x < 0 THEN -x ELSE x

\* The simulated volume of every instrument is a number that is not
\* negative and not below 10% of the reference volume
VolumeFloored ==
  \A i \in Simulated :
    /\ prices[i].volume24h # NaN
    /\ prices[i].volume24h >= 0
    /\ prices[i].volume24h * 10 >= RefVolume24h(i)

\* One tick changes a volume by 2.5% at most (up to the rounding of the
\* unit, a million)
VolumeStep ==
  \A t \in Timers, d \in Draws :
    SimFire(t, d) =>
      \A i \in t.ctx.data \cap DOMAIN prices :
        Abs(prices'[i].volume24h - prices[i].volume24h) * 1000
          <= 25 * prices[i].volume24h + 1000

\* C24: in the simulation tier the volume of an instrument changes by at
\* most 2.5% per tick and, after any number of ticks, is neither negative
\* nor below 10% of the instrument's reference volume.
C24_VolumeFloor == []VolumeFloored /\ [][VolumeStep]_vars

----------------------------------------------------------------------------
\* One tick moves the price of every simulated instrument by 0.5% of its
\* previous value at most (up to the rounding of the unit, a cent)
PriceStep ==
  \A t \in Timers, cap \in MarketCaps, d \in Draws :
    (mounted /\ SimFireFor(t, cap, d)) =>
      \A i \in t.ctx.data \cap DOMAIN prices :
        Abs(prices'[i].price - prices[i].price) * 1000
          <= 5 * prices[i].price + 1000

\* C25: in the simulation tier of the tiered hook one tick moves the price
\* of an instrument by at most 0.5% of its previous value, whatever the
\* instrument's marketCap, the trend term included.
C25_PriceStep == [][PriceStep]_vars

----------------------------------------------------------------------------
\* The entry of id is the same in the maps f and g
SameAt(f, g, id) ==
  /\ (id \in DOMAIN f) = (id \in DOMAIN g)
  /\ id \in DOMAIN f => f[id] = g[id]

\* In every state: an update the throttle rejects leaves the whole hook
\* state as it is (store, lastUpdate, the throttle's table, timers), and an
\* update for one id, accepted or not, leaves the entry and the timestamp of
\* every other id as they are
RejectedDropped ==
  mounted =>
    \A id \in DOMAIN SYMBOL_MAPPING, str \in {"43500.12", "0"} :
      LET s == updatePriceSmooth(Cur, id, PriceUpdate(str))
      IN /\ ~Due(id) => s = Cur
         /\ \A j \in (DOMAIN SYMBOL_MAPPING \cup WatchIds) \ {id} :
              /\ SameAt(s.prices, prices, j)
              /\ SameAt(s.lastPriceUpdateRef, lastPriceUpdateRef, j)

\* In every step: a stream message the throttle rejects changes nothing,
\* and one it accepts changes no other id
RejectedStep ==
  \A k \in Sockets, msg \in Msgs :
    (mounted /\ WsMessage(k, msg) /\ MsgId(msg) # "") =>
       /\ ~Due(MsgId(msg)) =>
            UNCHANGED <<prices, lastUpdate, lastPriceUpdateRef, timers, fetches>>
       /\ \A j \in (DOMAIN prices \cup DOMAIN lastPriceUpdateRef) \ {MsgId(msg)} :
            Kept(j)

\* C26: an update rejected by the throttle has no effect (Price Store,
\* lastUpdate and the per-id timestamp are unchanged, nothing is queued, the
\* window still runs from the last accepted update), and an update for one
\* id never changes the entry or the timestamp of another id.
C26_RejectedNoEffect == []RejectedDropped /\ [][RejectedStep]_vars

\* The clock has advanced inside the window of an accepted update while the
\* stream is open and the store holds other ids' entries and timestamps
C26_Witness ==
  \E id \in DOMAIN lastPriceUpdateRef \cap DOMAIN prices :
    /\ mounted /\ ~Due(id)
    /\ now > lastPriceUpdateRef[id] /\ lastUpdate = lastPriceUpdateRef[id]
    /\ \E k \in Sockets : k.state = "OPEN"
    /\ \E j \in DOMAIN prices \ {id} : prices[j].price = RefPrice(j)

----------------------------------------------------------------------------
\* The reconnect counter is one of 0..MAX_RECONNECT_ATTEMPTS
CounterInRange == reconnectAttempts \in 0..MAX_RECONNECT_ATTEMPTS

\* A step changes the counter only by raising it by one, in an abnormal
\* closure seen with a counter below the maximum, or by resetting it to 0
\* when a socket opens
CounterStep ==
  reconnectAttempts' # reconnectAttempts =>
    \/ /\ reconnectAttempts < MAX_RECONNECT_ATTEMPTS
       /\ reconnectAttempts' = reconnectAttempts + 1
       /\ \E k \in Sockets : AbnormalClosure(k)
    \/ /\ reconnectAttempts' = 0
       /\ \E k \in Sockets : WsOpen(k)

\* C27: the reconnect counter is always within 0..5; it is raised by
\* exactly 1 only by an abnormal closure observed with a counter below 5,
\* reset to 0 only by the opening of a stream connection, and changed by
\* nothing else.
C27_CounterRange == []CounterInRange /\ [][CounterStep]_vars

----------------------------------------------------------------------------
\* No simulation interval is installed, and the tier is never reported as
\* simulation together with connected
NotSimulating ==
  /\ ~SimRunning
  /\ ~(connectionType = "simulation" /\ isConnected)

\* C28: while the watchlist has an instrument that resolves in the
\* registry, no simulation interval is ever installed and, once the tier has
\* left its initial value, it never becomes simulation, however many socket
\* failures and failed batch requests occur.
C28_NoSimulationWhenResolved ==
  /\ [](Symbols(cryptoData) # {} => NotSimulating)
  /\ [][(Symbols(cryptoData) # {} /\ connectionType # "simulation")
          => connectionType' # "simulation"]_vars

\* Streaming has failed up to the maximum and a batch request has failed in
\* the polling tier: the hook polls and waits for the retry
C28_Witness ==
  /\ mounted /\ Symbols(cryptoData) # {}
  /\ reconnectAttempts >= MAX_RECONNECT_ATTEMPTS
  /\ connectionType = "polling" /\ PollRunning
  /\ RetriesPending > 0

----------------------------------------------------------------------------
\* The interval timers that are live
Intervals == {t \in Timers : IsInterval(t)}

\* C29: at most one interval timer (poll or simulation) is live, and it is
\* the one whose handle pollingIntervalRef holds.
C29_SingleInterval ==
  /\ BagCardinality([t \in Intervals |-> timers[t]]) <= 1
  /\ \A t \in Intervals : t.ref

----------------------------------------------------------------------------
\* The number of pending reconnect timeouts
ReconnectsPending ==
  BagCardinality([t \in {u \in Timers : u.kind = "reconnect"} |-> timers[t]])

\* C30: the clean closure of a socket, the one the hook's own cleanup
\* requested included, leaves the reconnect counter as it is and schedules
\* no reconnect, but starts polling in the same step: the tier is polling,
\* the poll interval of the socket's closure is held in pollingIntervalRef
\* and its first batch request is in flight.
C30_CleanCloseStartsPolling ==
  [][\A k \in Sockets :
       (mounted /\ WsClose(k, TRUE)) =>
          /\ reconnectAttempts' = reconnectAttempts
          /\ ReconnectsPending' <= ReconnectsPending
          /\ ~isConnected'
          /\ connectionType' = "polling"
          /\ \E t \in BagToSet(timers') : t.kind = "poll" /\ t.ref /\ t.ctx = k.ctx
          /\ \E f \in BagToSet(fetches') : f.ctx = k.ctx]_vars

\* The watchlist became empty while the stream was open, the socket the
\* cleanup closed has closed cleanly, and the hook polls for the old
\* watchlist
C30_Witness ==
  /\ mounted /\ cryptoData = {} /\ sockets = EmptyBag
  /\ reconnectAttempts = 0 /\ ReconnectsPending = 0
  /\ ~isConnected /\ connectionType = "polling"
  /\ \E t \in Timers : t.kind = "poll" /\ t.ref /\ t.ctx.connectionType = "websocket"

====
